---- MODULE Spec2Model ----
(***************************************************************************)
(* cshatag-md5, check.go: the integrity classification of one file.        *)
(*                                                                         *)
(* Text (file names, attribute values, digests) is a sequence of           *)
(* one-character strings.  A uint64 or uint32 value is its canonical       *)
(* decimal numeral (a sequence of digits without leading zeros, <<"0">>    *)
(* for zero): the code only parses, formats and compares these values, and *)
(* the numeral keeps the full width of both types.                          *)
(***************************************************************************)
EXTENDS Integers, Sequences, FiniteSets, TLC

----------------------------------------------------------------------------
(* Text helpers *)

Rep(c, n) == [i \in 1..n |-> c]

Digits == {"0", "1", "2", "3", "4", "5", "6", "7", "8", "9"}

HexChars == Digits \cup {"a", "b", "c", "d", "e", "f", "A", "B", "C", "D", "E", "F"}

\* the first position of character c in s, 0 when s has none
IndexOf(s, c) ==
    IF \E i \in 1..Len(s) : s[i] = c
    THEN CHOOSE i \in 1..Len(s) : s[i] = c /\ \A j \in 1..(i - 1) : s[j] # c
    ELSE 0

\* strings.SplitN(s, ".", 2)
SplitN2(s) ==
    LET i == IndexOf(s, ".")
    IN  IF i = 0 THEN <<s>>
        ELSE <<SubSeq(s, 1, i - 1), SubSeq(s, i + 1, Len(s))>>

----------------------------------------------------------------------------
(* Unsigned integers as decimal numerals *)

MaxUint64 ==
    <<"1","8","4","4","6","7","4","4","0","7","3","7","0","9","5","5","1","6","1","5">>

MaxUint32 == <<"4","2","9","4","9","6","7","2","9","5">>

Zero == <<"0">>

DigitVal(c) == CHOOSE v \in 0..9 : <<"0","1","2","3","4","5","6","7","8","9">>[v + 1] = c

\* the numeral without its leading zeros
Canon(s) ==
    LET nz == {i \in 1..Len(s) : s[i] # "0"}
    IN  IF nz = {} THEN Zero
        ELSE SubSeq(s, CHOOSE i \in nz : \A j \in nz : i <= j, Len(s))

\* a > b, for canonical numerals
NumGreater(a, b) ==
    \/ Len(a) > Len(b)
    \/ /\ Len(a) = Len(b)
       /\ \E i \in 1..Len(a) :
            /\ DigitVal(a[i]) > DigitVal(b[i])
            /\ \A j \in 1..(i - 1) : a[j] = b[j]

\* strconv.ParseUint(s, 10, bitSize), max the largest value of bitSize bits:
\* a syntax error gives 0, a range error gives max
ParseUint(s, max) ==
    IF s = <<>> \/ \E i \in 1..Len(s) : s[i] \notin Digits
    THEN [val |-> Zero, err |-> TRUE]
    ELSE IF NumGreater(Canon(s), max)
         THEN [val |-> max, err |-> TRUE]
         ELSE [val |-> Canon(s), err |-> FALSE]

\* fmt's %0<w>d of an unsigned value
PadZero(n, w) == IF Len(n) >= w THEN n ELSE Rep("0", w - Len(n)) \o n

----------------------------------------------------------------------------
(* Constants and types of check.go *)

Sha256Len == 64

Md5Len == 32

xattrSha256 == "user.shatag.sha256"

xattrTsSha256 == "user.shatag.ts"

zeroSha256 == Rep("0", Sha256Len)

xattrMd5 == "user.shatag.md5"

xattrTsMd5 == "user.shatag.tsmd5"

zeroMd5 == Rep("0", Md5Len)

XattrNames == {xattrSha256, xattrTsSha256, xattrMd5, xattrTsMd5}

fileTimestamp(s, ns) == [s |-> s, ns |-> ns]

zeroFileTimeStamp == fileTimestamp(Zero, Zero)

\* fmt.Sprintf("%010d.%09d", ts.s, ts.ns)
prettyPrint(ts) == PadZero(ts.s, 10) \o <<".">> \o PadZero(ts.ns, 9)

\* the zero value of the Go struct: zero timestamps, nil slices
fileAttr0 ==
    [ts |-> zeroFileTimeStamp, tsMd5 |-> zeroFileTimeStamp, sha256 |-> <<>>, md5 |-> <<>>]

----------------------------------------------------------------------------
(* Stored attributes.  x is the file's attribute store: a function from    *)
(* the names of the attributes it holds to their values.  xattr.FGet       *)
(* returns an error for every other name (a read that fails for another    *)
(* reason takes the same path of the code as an absent attribute).         *)

\* mutant: the last byte of val is not copied
copy_offByOne(dst, val) ==
    [i \in 1..Len(dst) |-> IF i < Len(val) THEN val[i] ELSE dst[i]]

\* Go's copy(dst, val): the first min(len) bytes of dst are overwritten
copy(dst, val) ==
    [i \in 1..Len(dst) |-> IF i <= Len(val) THEN val[i] ELSE dst[i]]

\* mutant: the nanoseconds are not parsed
parseTs_secondsOnly(val) ==
    fileTimestamp(ParseUint(SplitN2(val)[1], MaxUint64).val, Zero)

\* mutant: the seconds are parsed with bit size 32
parseTs_bitSize32(val) ==
    LET parts == SplitN2(val)
    IN  fileTimestamp(ParseUint(parts[1], MaxUint32).val,
                      IF Len(parts) > 1 THEN ParseUint(parts[2], MaxUint32).val
                      ELSE Zero)

\* the timestamp parse of getStoredAttrSha256 / getStoredAttrMd5
parseTs(val) ==
    LET parts == SplitN2(val)
    IN  fileTimestamp(ParseUint(parts[1], MaxUint64).val,
                      IF Len(parts) > 1 THEN ParseUint(parts[2], MaxUint32).val
                      ELSE Zero)

getStoredAttrSha256(x) ==
    [fileAttr0 EXCEPT
        !.sha256 = IF xattrSha256 \in DOMAIN x THEN copy(zeroSha256, x[xattrSha256])
                   ELSE zeroSha256,
        !.ts = IF xattrTsSha256 \in DOMAIN x THEN parseTs(x[xattrTsSha256])
               ELSE zeroFileTimeStamp]

\* mutant: the timestamp is read from the SHA-256 timestamp attribute
getStoredAttrMd5_tsName(x) ==
    [fileAttr0 EXCEPT
        !.md5 = IF xattrMd5 \in DOMAIN x THEN copy(zeroMd5, x[xattrMd5])
                ELSE zeroMd5,
        !.tsMd5 = IF xattrTsSha256 \in DOMAIN x THEN parseTs(x[xattrTsSha256])
                  ELSE zeroFileTimeStamp]

getStoredAttrMd5(x) ==
    [fileAttr0 EXCEPT
        !.md5 = IF xattrMd5 \in DOMAIN x THEN copy(zeroMd5, x[xattrMd5])
                ELSE zeroMd5,
        !.tsMd5 = IF xattrTsMd5 \in DOMAIN x THEN parseTs(x[xattrTsMd5])
                  ELSE zeroFileTimeStamp]

\* mutant: the dispatch on the algorithm is inverted
getStoredAttr_inverted(bMd5, x) ==
    IF bMd5 THEN getStoredAttrSha256(x) ELSE getStoredAttrMd5(x)

getStoredAttr(bMd5, x) ==
    IF bMd5 THEN getStoredAttrMd5(x) ELSE getStoredAttrSha256(x)

----------------------------------------------------------------------------
(* Comparisons *)

\* mutant: only the seconds are compared
timesMatch_seconds(bMd5, stored, actual) ==
    IF bMd5 /\ stored.tsMd5.s = actual.tsMd5.s THEN TRUE
    ELSE IF ~bMd5 /\ stored.ts.s = actual.ts.s THEN TRUE
    ELSE FALSE

timesMatch(bMd5, stored, actual) ==
    IF bMd5 /\ stored.tsMd5 = actual.tsMd5 THEN TRUE
    ELSE IF ~bMd5 /\ stored.ts = actual.ts THEN TRUE
    ELSE FALSE

timesMatchZero(bMd5, attr) ==
    IF bMd5 /\ attr.tsMd5 = zeroFileTimeStamp THEN TRUE
    ELSE IF ~bMd5 /\ attr.ts = zeroFileTimeStamp THEN TRUE
    ELSE FALSE

\* mutant: the MD5 branch compares the SHA-256 fields
checksumsMatch_sha256Only(bMd5, stored, actual) ==
    IF bMd5 /\ stored.sha256 = actual.sha256 THEN TRUE
    ELSE IF ~bMd5 /\ stored.sha256 = actual.sha256 THEN TRUE
    ELSE FALSE

checksumsMatch(bMd5, stored, actual) ==
    IF bMd5 /\ stored.md5 = actual.md5 THEN TRUE
    ELSE IF ~bMd5 /\ stored.sha256 = actual.sha256 THEN TRUE
    ELSE FALSE

\* mutant: the MD5 branch compares with the SHA-256 zero digest
bytesMatchZero_zeroSha(bMd5, attr) ==
    IF bMd5 /\ attr.md5 = zeroSha256 THEN TRUE
    ELSE IF ~bMd5 /\ attr.sha256 = zeroSha256 THEN TRUE
    ELSE FALSE

bytesMatchZero(bMd5, attr) ==
    IF bMd5 /\ attr.md5 = zeroMd5 THEN TRUE
    ELSE IF ~bMd5 /\ attr.sha256 = zeroSha256 THEN TRUE
    ELSE FALSE

----------------------------------------------------------------------------
(* The checksum in the file name *)

\* filepath.Base on a slash-separated path
Base(path) ==
    LET ends == {i \in 1..Len(path) : path[i] # "/"}
    IN  IF path = <<>> THEN <<".">>
        ELSE IF ends = {} THEN <<"/">>
        ELSE LET last == CHOOSE i \in ends : \A j \in ends : j <= i
                 slashes == {i \in 1..last : path[i] = "/"}
                 from == IF slashes = {} THEN 1
                         ELSE 1 + CHOOSE i \in slashes : \A j \in slashes : j <= i
             IN  SubSeq(path, from, last)

\* regexp [0-9a-fA-F]{n}, FindString: the leftmost n hex characters in a row
FindHex(s, n) ==
    LET hits == {i \in 1..(Len(s) - n + 1) : \A k \in i..(i + n - 1) : s[k] \in HexChars}
    IN  IF hits = {} THEN <<>>
        ELSE LET i == CHOOSE h \in hits : \A g \in hits : h <= g
             IN  SubSeq(s, i, i + n - 1)

\* mutant: any other length asks for a whole SHA-256 digest
extractChecksumFromFilename_run64(bMd5, name, len) ==
    IF len = Md5Len THEN FindHex(name, Md5Len) ELSE FindHex(name, Sha256Len)

extractChecksumFromFilename(bMd5, name, len) ==
    IF len = Md5Len THEN FindHex(name, Md5Len) ELSE FindHex(name, 1)

\* mutant: the two lengths asked of extractChecksumFromFilename are exchanged
checkFilename_lengths(bMd5, pathFile, actual) ==
    LET name == Base(pathFile)
        hash == IF bMd5 THEN extractChecksumFromFilename(bMd5, name, 0)
                ELSE extractChecksumFromFilename(bMd5, name, Md5Len)
    IN  IF bMd5 THEN hash = actual.md5 ELSE hash = actual.sha256

checkFilename(bMd5, pathFile, actual) ==
    LET name == Base(pathFile)
        hash == IF bMd5 THEN extractChecksumFromFilename(bMd5, name, Md5Len)
                ELSE extractChecksumFromFilename(bMd5, name, 0)
    IN  IF bMd5 THEN hash = actual.md5 ELSE hash = actual.sha256

----------------------------------------------------------------------------
(* The file system: one file, its content read in blocks, its              *)
(* modification time and its extended attributes.                          *)

MaxChecks == 2

MaxWrites == 1

\* two versions of the file's content, of two blocks each
ContentA == <<"a", "a">>

ContentB == <<"b", "b">>

Contents == {ContentA, ContentB}

\* hex(md5.Sum(data)) of what io.Copy streamed
md5Hex(data) ==
    CASE data = <<"a", "a">> ->
           <<"4","1","2","4","b","c","0","a","9","3","3","5","c","2","7","f","0","8","6","f","2","4","b","a","2","0","7","a","4","9","1","2">>
      [] data = <<"a", "b">> ->
           <<"1","8","7","e","f","4","4","3","6","1","2","2","d","1","c","c","2","f","4","0","d","c","2","b","9","2","f","0","e","b","a","0">>
      [] data = <<"b", "a">> ->
           <<"0","7","1","5","9","c","4","7","e","e","1","b","1","9","a","e","4","f","b","9","c","4","0","d","4","8","0","8","5","6","c","4">>
      [] data = <<"b", "b">> ->
           <<"2","1","a","d","0","b","d","8","3","6","b","9","0","d","0","8","f","4","c","f","6","4","0","b","4","c","2","9","8","e","7","c">>

\* hex(sha256.Sum(data)) of what io.Copy streamed
sha256Hex(data) ==
    CASE data = <<"a", "a">> ->
           <<"9","6","1","b","6","d","d","3","e","d","e","3","c","b","8","e","c","b","a","a","c","b","d","6","8","d","e","0","4","0","c","d","7","8","e","b","2","e","d","5","8","8","9","1","3","0","c","c","e","b","4","c","4","9","2","6","8","e","a","4","d","5","0","6">>
      [] data = <<"a", "b">> ->
           <<"f","b","8","e","2","0","f","c","2","e","4","c","3","f","2","4","8","c","6","0","c","3","9","b","d","6","5","2","f","3","c","1","3","4","7","2","9","8","b","b","9","7","7","b","8","b","4","d","5","9","0","3","b","8","5","0","5","5","6","2","0","6","0","3">>
      [] data = <<"b", "a">> ->
           <<"9","7","0","f","5","1","9","c","2","c","a","d","b","c","e","f","b","1","e","8","1","6","9","4","f","9","0","4","b","c","6","2","2","9","d","d","2","a","8","3","0","0","e","9","8","c","6","d","0","d","4","f","c","4","b","f","c","a","5","8","4","1","4","0">>
      [] data = <<"b", "b">> ->
           <<"3","b","6","4","d","b","9","5","c","b","5","5","c","7","6","3","3","9","1","c","7","0","7","1","0","8","4","8","9","a","e","1","8","b","4","1","1","2","d","7","8","3","3","0","0","d","e","3","8","e","0","3","3","b","4","c","9","8","c","3","d","e","a","f">>

\* modification times a file may carry: the epoch and two instants of one
\* later second
TEpoch == zeroFileTimeStamp

TA == fileTimestamp(<<"1","5","6","0","1","7","7","1","8","9">>,
                    <<"7","6","9","2","4","4","8","1","8">>)

TB == fileTimestamp(<<"1","5","6","0","1","7","7","1","8","9">>,
                    <<"2","0","7","7","5","0","5","1">>)

Mtimes == {TEpoch, TA, TB}

\* names the file goes by: one embedding the md5 of <<"a","a">>, one without
\* a 32-digit run
PathTagged ==
    <<"p","i","c","s","/","I","M","G","_","4","1","2","4","b","c","0","a","9","3","3","5","c","2","7","f","0","8","6","f","2","4","b","a","2","0","7","a","4","9","1","2",".","j","p","g">>

PathPlain == <<"p","i","c","s","/","n","o","t","e","s",".","t","x","t">>

Paths == {PathTagged, PathPlain}

Restrict(f, S) == [n \in S |-> f[n]]

\* attribute stores a file may start with, per algorithm: none, both
\* attributes as an earlier run left them, or only one of the two
ShaStores ==
    LET full == (xattrSha256 :> sha256Hex(<<"a", "a">>)) @@ (xattrTsSha256 :> prettyPrint(TA))
    IN  {Restrict(full, S) : S \in SUBSET DOMAIN full}

Md5Stores ==
    LET full == (xattrMd5 :> md5Hex(<<"a", "a">>)) @@ (xattrTsMd5 :> prettyPrint(TA))
    IN  {Restrict(full, S) : S \in SUBSET DOMAIN full}

\* the stores a run under algorithm bMd5 may find when the file carries
\* attributes of that algorithm only
OwnStores(bMd5) == IF bMd5 THEN Md5Stores ELSE ShaStores

\* the stores a run under algorithm bMd5 may find when the file also carries
\* attributes of the other algorithm: any of each
InitStores(bMd5) == {a @@ b : a \in ShaStores, b \in Md5Stores}

VARIABLES
    content,            \* the file's content, a sequence of blocks
    mtime,              \* the file's modification time
    xattr,              \* the file's extended attributes: name -> value
    fn,                 \* the path the file is checked under
    gBMd5,              \* the run's algorithm: MD5 (TRUE) or SHA-256, checkFile's bMd5
    args,               \* the command line: args.remove
    gBOnlyFilename,     \* only compare the file name with the stored digest
    gBCheckFilename,    \* also require the file name to carry the digest
    stats,              \* the run's counters
    pc,                 \* where checkFile stands: "idle", "hashing", "done"
    chk,                \* the locals of the current (or last) call of checkFile
    writes,             \* how often another process has written the file
    held,               \* the versions <<mtime, content>> the file has had,
                        \* recorded in runs against the writer that never
                        \* reuses a modification time (SpecFresh); empty in
                        \* the other runs
    hist                \* the last check that called storeAttr, the file not
                        \* written since that check began: its verdict when
                        \* both attributes were written, the outcome of
                        \* storeAttr when only one was; "none" without such a
                        \* check

vars ==
    <<content, mtime, xattr, fn, gBMd5, args, gBOnlyFilename, gBCheckFilename, stats,
      pc, chk, writes, held, hist>>

\* what a run never changes: the path, the algorithm and the flags
config == <<fn, gBMd5, args, gBOnlyFilename, gBCheckFilename>>

stats0 ==
    [total |-> 0, errorsOpening |-> 0, errorsWritingXattr |-> 0, errorsOther |-> 0,
     inprogress |-> 0, corrupt |-> 0, timechange |-> 0, outdated |-> 0,
     newfile |-> 0, ok |-> 0]

Inc(st, field) == [st EXCEPT ![field] = @ + 1]

hist0 == "none"

chk0 ==
    [stored |-> fileAttr0, actual |-> fileAttr0,
     buf |-> <<>>, sampled2 |-> FALSE, ts2 |-> zeroFileTimeStamp,
     verdict |-> "none", store |-> "none",
     xattr0 |-> <<>>, stats0 |-> stats0, writes0 |-> 0, hist0 |-> hist0]

\* the locals at the entry of checkFile(bMd5, fn)
Enter ==
    [chk0 EXCEPT !.xattr0 = xattr, !.stats0 = stats, !.writes0 = writes, !.hist0 = hist]

InitFile ==
    /\ content = ContentA
    /\ mtime \in {TEpoch, TA}
    /\ gBMd5 \in BOOLEAN
    /\ xattr \in OwnStores(gBMd5)
    /\ fn \in Paths
    /\ args \in [remove : BOOLEAN]
    /\ gBOnlyFilename \in BOOLEAN
    /\ gBCheckFilename \in BOOLEAN
    /\ stats = stats0
    /\ pc = "idle"
    /\ chk = chk0
    /\ writes = 0
    /\ hist = hist0

\* the state before the first check; no versions are recorded
Init == InitFile /\ held = {}

----------------------------------------------------------------------------
(* Attribute writes *)

digestName(bMd5) == IF bMd5 THEN xattrMd5 ELSE xattrSha256

tsName(bMd5) == IF bMd5 THEN xattrTsMd5 ELSE xattrTsSha256

StoreOutcomes == {"ok", "failed", "failed_after_digest", "failed_after_ts"}

\* the outcomes that leave one of the two attributes written
StorePartial == {"failed_after_digest", "failed_after_ts"}

\* storeAttr(bMd5, f, actual): two attribute writes, the digest and the
\* timestamp text; a failure of the second leaves the first in place
storeAttr(bMd5, x, actual, outcome) ==
    LET digest == digestName(bMd5) :> (IF bMd5 THEN actual.md5 ELSE actual.sha256)
        ts == tsName(bMd5) :> prettyPrint(IF bMd5 THEN actual.tsMd5 ELSE actual.ts)
    IN  CASE outcome = "ok" -> digest @@ ts @@ x
          [] outcome = "failed_after_digest" -> digest @@ x
          [] outcome = "failed_after_ts" -> ts @@ x
          [] outcome = "failed" -> x

\* removeAttr(f): every attribute but those whose removal failed is gone
removeAttr(x, keep) == Restrict(x, keep)

----------------------------------------------------------------------------
(* checkFile *)

\* the driver calls checkFile for the next file once the last call returned
CanEnter == pc \in {"idle", "done"} /\ stats.total < MaxChecks

\* mutant: the file-name-only mode is looked at before remove mode
branch_onlyFirst(remove, onlyFilename) ==
    IF onlyFilename THEN "onlyFilename"
    ELSE IF remove THEN "remove"
    ELSE "hash"

\* lines 264, 278, 290: the path an opened file takes, remove mode first
branch(remove, onlyFilename) ==
    IF remove THEN "remove"
    ELSE IF onlyFilename THEN "onlyFilename"
    ELSE "hash"

\* mutant: line 260 does not return, the failed open is counted once more as
\* another error
checkFile_openError_noReturn ==
    /\ CanEnter
    /\ chk' = [Enter EXCEPT !.verdict = "open_error"]
    /\ stats' = Inc(Inc(Inc(stats, "total"), "errorsOpening"), "errorsOther")
    /\ pc' = "done"
    /\ UNCHANGED <<content, mtime, xattr, config, writes, held, hist>>

\* lines 255-261: os.Open fails
checkFile_openError ==
    /\ CanEnter
    /\ chk' = [Enter EXCEPT !.verdict = "open_error"]
    /\ stats' = Inc(Inc(stats, "total"), "errorsOpening")
    /\ pc' = "done"
    /\ UNCHANGED <<content, mtime, xattr, config, writes, held, hist>>

\* lines 264-275: remove mode
checkFile_remove ==
    /\ CanEnter
    /\ branch(args.remove, gBOnlyFilename) = "remove"
    /\ \E keep \in SUBSET DOMAIN xattr :
         /\ xattr' = removeAttr(xattr, keep)
         /\ chk' = [Enter EXCEPT
                       !.verdict = IF keep = {} THEN "removed" ELSE "remove_error"]
         /\ stats' = Inc(Inc(stats, "total"), IF keep = {} THEN "ok" ELSE "errorsOther")
    /\ hist' = hist0
    /\ pc' = "done"
    /\ UNCHANGED <<content, mtime, config, writes, held>>

\* lines 277-289: only the file name is checked, against the stored digest
checkFile_onlyFilename ==
    /\ CanEnter
    /\ branch(args.remove, gBOnlyFilename) = "onlyFilename"
    /\ LET stored == getStoredAttr(gBMd5, xattr)
       IN  chk' = [Enter EXCEPT
                      !.stored = stored,
                      !.verdict = IF checkFilename(gBMd5, fn, stored)
                                  THEN "filename_ok" ELSE "filename_mismatch"]
    /\ stats' = Inc(stats, "total")
    /\ pc' = "done"
    /\ UNCHANGED <<content, mtime, xattr, config, writes, held, hist>>

\* getActualAttrSha256 / getActualAttrMd5 up to the first getMtime
actualStart(bMd5, ts) ==
    IF bMd5 THEN [fileAttr0 EXCEPT !.md5 = zeroMd5, !.tsMd5 = ts]
    ELSE [fileAttr0 EXCEPT !.sha256 = zeroSha256, !.ts = ts]

\* lines 277, 292: stored attributes are read, hashing starts with getMtime
checkFile_startHash ==
    /\ CanEnter
    /\ branch(args.remove, gBOnlyFilename) = "hash"
    /\ chk' = [Enter EXCEPT
                  !.stored = getStoredAttr(gBMd5, xattr),
                  !.actual = actualStart(gBMd5, mtime)]
    /\ stats' = Inc(stats, "total")
    /\ pc' = "hashing"
    /\ UNCHANGED <<content, mtime, xattr, config, writes, held, hist>>

\* io.Copy reads the next block
ioCopy ==
    /\ pc = "hashing"
    /\ Len(chk.buf) < Len(content)
    /\ chk' = [chk EXCEPT !.buf = Append(@, content[Len(@) + 1])]
    /\ UNCHANGED <<content, mtime, xattr, config, stats, pc, writes, held, hist>>

\* lines 299-303: Stat or Read fails while the actual attributes are computed
checkFile_readError ==
    /\ pc = "hashing"
    /\ chk' = [chk EXCEPT !.verdict = "read_error"]
    /\ stats' = Inc(stats, "errorsOther")
    /\ pc' = "done"
    /\ UNCHANGED <<content, mtime, xattr, config, writes, held, hist>>

\* the end of getActualAttrSha256 / getActualAttrMd5: the digest is set
actualEnd(bMd5, attr, data) ==
    IF bMd5 THEN [attr EXCEPT !.md5 = md5Hex(data)]
    ELSE [attr EXCEPT !.sha256 = sha256Hex(data)]

\* mutant: the MD5 variant compares the SHA-256 timestamp field
tornRead_tsField(bMd5, attr, ts2) == attr.ts # ts2

\* mutant: the two samples are compared by their seconds
tornRead_seconds(bMd5, attr, ts2) == (IF bMd5 THEN attr.tsMd5.s ELSE attr.ts.s) # ts2.s

\* the second getMtime differs from the first
tornRead(bMd5, attr, ts2) == (IF bMd5 THEN attr.tsMd5 ELSE attr.ts) # ts2

\* lines 293-298: the file changed while it was hashed
checkFile_inprogress ==
    /\ pc = "hashing"
    /\ Len(chk.buf) = Len(content)
    /\ tornRead(gBMd5, chk.actual, mtime)
    /\ chk' = [chk EXCEPT !.verdict = "inprogress", !.sampled2 = TRUE, !.ts2 = mtime]
    /\ stats' = Inc(stats, "inprogress")
    /\ pc' = "done"
    /\ UNCHANGED <<content, mtime, xattr, config, writes, held, hist>>

\* mutant: a file counts as new when its stored digest or its stored
\* timestamp is zero
classify_eitherZero(bMd5, pathFile, stored, actual, cfn) ==
    IF timesMatch(bMd5, stored, actual)
    THEN IF checksumsMatch(bMd5, stored, actual)
         THEN IF cfn /\ ~checkFilename(bMd5, pathFile, actual)
              THEN "filename_not_matched"
              ELSE "ok"
         ELSE "corrupt"
    ELSE IF checksumsMatch(bMd5, stored, actual) THEN "timechange"
    ELSE IF bytesMatchZero(bMd5, stored) \/ timesMatchZero(bMd5, stored) THEN "new"
    ELSE "outdated"

\* lines 305-344: the verdict on stored against actual attributes
classify(bMd5, pathFile, stored, actual, cfn) ==
    IF timesMatch(bMd5, stored, actual)
    THEN IF checksumsMatch(bMd5, stored, actual)
         THEN IF cfn /\ ~checkFilename(bMd5, pathFile, actual)
              THEN "filename_not_matched"
              ELSE "ok"
         ELSE "corrupt"
    ELSE IF checksumsMatch(bMd5, stored, actual) THEN "timechange"
    ELSE IF bytesMatchZero(bMd5, stored) /\ timesMatchZero(bMd5, stored) THEN "new"
    ELSE "outdated"

\* the counter a verdict increments
counterOf(verdict) ==
    CASE verdict = "ok" -> "ok"
      [] verdict = "corrupt" -> "corrupt"
      [] verdict = "timechange" -> "timechange"
      [] verdict = "new" -> "newfile"
      [] verdict = "outdated" -> "outdated"

\* mutant: a failed store counts the write error in place of the verdict
afterStore_unflag(st, verdict, outcome) ==
    IF outcome = "ok" THEN Inc(st, counterOf(verdict))
    ELSE Inc(st, "errorsWritingXattr")

\* lines 324-353: the verdict's counter, and the write error's when storeAttr
\* failed
afterStore(st, verdict, outcome) ==
    IF outcome = "ok" THEN Inc(st, counterOf(verdict))
    ELSE Inc(Inc(st, counterOf(verdict)), "errorsWritingXattr")

\* mutant: line 315 does not return, the file is counted as ok all the same
afterMatch_noReturn(st, verdict) == Inc(st, "ok")

\* lines 307-322: stats.ok++ unless the file name was not matched
afterMatch(st, verdict) == IF verdict = "ok" THEN Inc(st, "ok") ELSE st

\* lines 305-323: timestamps and digests match, nothing is written
checkFile_match ==
    /\ pc = "hashing"
    /\ Len(chk.buf) = Len(content)
    /\ ~tornRead(gBMd5, chk.actual, mtime)
    /\ LET actual == actualEnd(gBMd5, chk.actual, chk.buf)
           verdict == classify(gBMd5, fn, chk.stored, actual, gBCheckFilename)
       IN  /\ verdict \in {"ok", "filename_not_matched"}
           /\ chk' = [chk EXCEPT !.actual = actual, !.verdict = verdict,
                                 !.sampled2 = TRUE, !.ts2 = mtime]
           /\ stats' = afterMatch(stats, verdict)
    /\ pc' = "done"
    /\ UNCHANGED <<content, mtime, xattr, config, writes, held, hist>>

\* lines 324-353: corrupt, timechange, new or outdated, then storeAttr
checkFile_store ==
    /\ pc = "hashing"
    /\ Len(chk.buf) = Len(content)
    /\ ~tornRead(gBMd5, chk.actual, mtime)
    /\ LET actual == actualEnd(gBMd5, chk.actual, chk.buf)
           verdict == classify(gBMd5, fn, chk.stored, actual, gBCheckFilename)
       IN  /\ verdict \in {"corrupt", "timechange", "new", "outdated"}
           /\ \E outcome \in StoreOutcomes :
                /\ xattr' = storeAttr(gBMd5, xattr, actual, outcome)
                /\ chk' = [chk EXCEPT !.actual = actual, !.verdict = verdict,
                                      !.sampled2 = TRUE, !.ts2 = mtime,
                                      !.store = outcome]
                /\ stats' = afterStore(stats, verdict, outcome)
                /\ hist' = IF writes # chk.writes0 THEN hist0
                           ELSE IF outcome = "ok" THEN verdict
                           ELSE IF outcome \in StorePartial THEN outcome
                           ELSE hist0
    /\ pc' = "done"
    /\ UNCHANGED <<content, mtime, config, writes, held>>

----------------------------------------------------------------------------
(* Other processes writing the file *)

CanWrite == writes < MaxWrites

\* the content is rewritten and the modification time moves
Modify ==
    /\ CanWrite
    /\ content' \in Contents \ {content}
    /\ mtime' \in Mtimes \ {mtime}
    /\ writes' = writes + 1
    /\ hist' = hist0
    /\ UNCHANGED <<xattr, config, stats, pc, chk, held>>

\* only the modification time moves (touch, a copy that keeps the content)
Touch ==
    /\ CanWrite
    /\ mtime' \in Mtimes \ {mtime}
    /\ writes' = writes + 1
    /\ hist' = hist0
    /\ UNCHANGED <<content, xattr, config, stats, pc, chk, held>>

\* the content changes under an unchanged modification time (bit rot, or a
\* writer that puts the time back)
Rot ==
    /\ CanWrite
    /\ content' \in Contents \ {content}
    /\ writes' = writes + 1
    /\ hist' = hist0
    /\ UNCHANGED <<mtime, xattr, config, stats, pc, chk, held>>

Next ==
    \/ checkFile_openError
    \/ checkFile_remove
    \/ checkFile_onlyFilename
    \/ checkFile_startHash
    \/ ioCopy
    \/ checkFile_readError
    \/ checkFile_inprogress
    \/ checkFile_match
    \/ checkFile_store
    \/ Modify
    \/ Touch
    \/ Rot

Spec == Init /\ [][Next]_vars

----------------------------------------------------------------------------
(* Checks of a file that carries attributes of both algorithms.            *)

\* remove mode is off, the file name is compared
InitOther ==
    /\ content = ContentA
    /\ mtime \in {TEpoch, TA}
    /\ gBMd5 \in BOOLEAN
    /\ xattr \in InitStores(gBMd5)
    /\ fn = PathTagged
    /\ args = [remove |-> FALSE]
    /\ gBOnlyFilename \in BOOLEAN
    /\ gBCheckFilename = TRUE
    /\ stats = stats0
    /\ pc = "idle"
    /\ chk = chk0
    /\ writes = 0
    /\ held = {}
    /\ hist = hist0

NextOther ==
    \/ checkFile_openError
    \/ checkFile_onlyFilename
    \/ checkFile_startHash
    \/ ioCopy
    \/ checkFile_readError
    \/ checkFile_inprogress
    \/ checkFile_match
    \/ checkFile_store
    \/ Modify
    \/ Touch
    \/ Rot

SpecOther == InitOther /\ [][NextOther]_vars

----------------------------------------------------------------------------
(* A check against a writer whose every write sets the modification time   *)
(* to a value the file never had.                                          *)

\* the modification times the file has had under this writer
usedMtimes == {v[1] : v \in held}

\* checks that hash and store: remove mode and the file name flags are off
InitFresh ==
    /\ InitFile
    /\ held = {<<mtime, content>>}
    /\ ~args.remove
    /\ ~gBOnlyFilename
    /\ ~gBCheckFilename
    /\ fn = PathPlain

\* the content is rewritten, the modification time becomes a new one
ModifyFresh ==
    /\ CanWrite
    /\ content' \in Contents \ {content}
    /\ mtime' \in Mtimes \ usedMtimes
    /\ held' = held \cup {<<mtime', content'>>}
    /\ writes' = writes + 1
    /\ hist' = hist0
    /\ UNCHANGED <<xattr, config, stats, pc, chk>>

\* only the modification time moves, to a new one
TouchFresh ==
    /\ CanWrite
    /\ mtime' \in Mtimes \ usedMtimes
    /\ held' = held \cup {<<mtime', content>>}
    /\ writes' = writes + 1
    /\ hist' = hist0
    /\ UNCHANGED <<content, xattr, config, stats, pc, chk>>

NextFresh ==
    \/ checkFile_openError
    \/ checkFile_startHash
    \/ ioCopy
    \/ checkFile_readError
    \/ checkFile_inprogress
    \/ checkFile_match
    \/ checkFile_store
    \/ ModifyFresh
    \/ TouchFresh

SpecFresh == InitFresh /\ [][NextFresh]_vars

----------------------------------------------------------------------------
(* Stored timestamp text: what getStoredAttr makes of any attribute value, *)
(* and of the text prettyPrint writes for any timestamp.                   *)

\* texts before the first "." of a stored timestamp: empty, not a number,
\* zero-padded, the largest uint64 value, and beyond it
SecTexts ==
    {<<>>,
     <<"0">>,
     <<"x">>,
     <<"1","2","x">>,
     <<"0","0","0","0","0","0","0","0","0","7">>,
     <<"1","5","6","0","1","7","7","1","8","9">>,
     <<"1","8","4","4","6","7","4","4","0","7","3","7","0","9","5","5","1","6","1","5">>,
     <<"1","8","4","4","6","7","4","4","0","7","3","7","0","9","5","5","1","6","1","6">>,
     <<"9","9","9","9","9","9","9","9","9","9","9","9","9","9","9","9","9","9","9","9","9","9","9">>}

\* texts after the first ".": empty, not a number, zero-padded, the largest
\* uint32 value, beyond it, and one with a second "."
NsTexts ==
    {<<>>,
     <<"5">>,
     <<"x">>,
     <<"0","0","0","0","0","0","0","0","5">>,
     <<"7","6","9","2","4","4","8","1","8">>,
     <<"4","2","9","4","9","6","7","2","9","5">>,
     <<"4","2","9","4","9","6","7","2","9","6">>,
     <<"1",".","5">>}

\* attribute values: seconds alone, or seconds "." nanoseconds
TsTexts == SecTexts \cup {a \o <<".">> \o b : a \in SecTexts, b \in NsTexts}

\* timestamps over the width of both fields: zero, the widths of the
\* format, one digit more, and the largest values
TsPairs ==
    {fileTimestamp(a, b) :
        a \in {<<"0">>,
             <<"1">>,
             <<"1","5","6","0","1","7","7","1","8","9">>,
             <<"9","9","9","9","9","9","9","9","9","9">>,
             <<"1","0","0","0","0","0","0","0","0","0","0">>,
             <<"1","8","4","4","6","7","4","4","0","7","3","7","0","9","5","5","1","6","1","5">>},
        b \in {<<"0">>,
             <<"1">>,
             <<"2","0","7","7","5","0","5","1">>,
             <<"9","9","9","9","9","9","9","9","9">>,
             <<"1","0","0","0","0","0","0","0","0","0">>,
             <<"4","2","9","4","9","6","7","2","9","5">>}}

\* the store holds no timestamp, or any text under the timestamp name
InitAttr ==
    /\ content = ContentA
    /\ mtime = TA
    /\ gBMd5 \in BOOLEAN
    /\ xattr \in {<<>>} \cup {tsName(gBMd5) :> t : t \in TsTexts}
    /\ fn = PathPlain
    /\ args = [remove |-> FALSE]
    /\ gBOnlyFilename = FALSE
    /\ gBCheckFilename = FALSE
    /\ stats = stats0
    /\ pc = "idle"
    /\ chk = chk0
    /\ writes = 0
    /\ held = {}
    /\ hist = hist0

\* lines 277, 63-105: the stored attributes are read
LoadStored ==
    /\ pc \in {"idle", "formatted"}
    /\ chk' = [chk EXCEPT !.stored = getStoredAttr(gBMd5, xattr)]
    /\ pc' = IF pc = "idle" THEN "loaded" ELSE "reloaded"
    /\ UNCHANGED <<content, mtime, xattr, config, stats, writes, held, hist>>

\* lines 41-43: a timestamp is formatted, the text put under the timestamp
\* name
FormatTs ==
    /\ pc \in {"idle", "loaded"}
    /\ \E ts \in TsPairs :
         /\ xattr' = (tsName(gBMd5) :> prettyPrint(ts))
         /\ chk' = [chk0 EXCEPT !.actual = actualStart(gBMd5, ts)]
    /\ pc' = "formatted"
    /\ UNCHANGED <<content, mtime, config, stats, writes, held, hist>>

NextAttr == LoadStored \/ FormatTs

SpecAttr == InitAttr /\ [][NextAttr]_vars

----------------------------------------------------------------------------
(* File names: what checkFilename and the comparison of lines 305-323 make *)
(* of any path, for attributes that match in timestamp and digest.         *)

\* paths whose base name holds a run of exactly 32 hex digits, of 31, of 33,
\* of 40 before one of 32, of 64, a short run before one of 32, upper-case
\* digits, no hex digit, one hex digit, a digest in the directory only, and
\* the empty path
Names ==
    {PathTagged,
     PathPlain,
     <<"I","M","G","_">> \o SubSeq(md5Hex(ContentA), 1, 31) \o <<".","j","p","g">>,
     <<"I","M","G","_">> \o md5Hex(ContentA) \o <<"f",".","j","p","g">>,
     SubSeq(sha256Hex(ContentB), 1, 40) \o <<"_">> \o md5Hex(ContentB) \o <<".","j","p","g">>,
     sha256Hex(ContentA) \o <<".","b","i","n">>,
     <<"a","b","_">> \o md5Hex(ContentA),
     <<"4","1","2","4","B","C","0","A","9","3","3","5","C","2","7","F","0","8","6","F","2","4","B","A","2","0","7","A","4","9","1","2",".","J","P","G">>,
     <<"p","h","o","t","o",".","j","p","g">>,
     <<"a">>,
     md5Hex(ContentA) \o <<"/">> \o sha256Hex(ContentA) \o <<".","t","x","t">>,
     <<>>}

\* the attributes a file of content data and modification time TA has
\* under algorithm bMd5
attrOf(bMd5, data) == actualEnd(bMd5, actualStart(bMd5, TA), data)

\* stored and actual attributes agree: those of one of the two contents
InitName ==
    /\ content \in Contents
    /\ mtime = TA
    /\ gBMd5 \in BOOLEAN
    /\ xattr = storeAttr(gBMd5, <<>>, attrOf(gBMd5, content), "ok")
    /\ fn \in Names
    /\ args = [remove |-> FALSE]
    /\ gBOnlyFilename = FALSE
    /\ gBCheckFilename = TRUE
    /\ stats = stats0
    /\ pc = "idle"
    /\ chk = [stored |-> getStoredAttr(gBMd5, xattr),
              actual |-> attrOf(gBMd5, content),
              hash |-> <<>>, match |-> FALSE, verdict |-> "none"]
    /\ writes = 0
    /\ held = {}
    /\ hist = hist0

\* lines 210-217, 232-244: the checksum is taken from the base name
checkFilename_extract ==
    /\ pc = "idle"
    /\ chk' = [chk EXCEPT
                  !.hash = extractChecksumFromFilename(gBMd5, Base(fn),
                                                       IF gBMd5 THEN Md5Len ELSE 0)]
    /\ pc' = "extracted"
    /\ UNCHANGED <<content, mtime, xattr, config, stats, writes, held, hist>>

\* lines 220-229: the checksum is compared with the digest
checkFilename_compare ==
    /\ pc = "extracted"
    /\ chk' = [chk EXCEPT !.match = checkFilename(gBMd5, fn, chk.actual)]
    /\ pc' = "compared"
    /\ UNCHANGED <<content, mtime, xattr, config, stats, writes, held, hist>>

\* lines 305-323: the verdict on matching attributes
checkFile_verdict ==
    /\ pc = "compared"
    /\ chk' = [chk EXCEPT
                  !.verdict = classify(gBMd5, fn, chk.stored, chk.actual, gBCheckFilename)]
    /\ stats' = afterMatch(Inc(stats, "total"), chk'.verdict)
    /\ pc' = "classified"
    /\ UNCHANGED <<content, mtime, xattr, config, writes, held, hist>>

NextName == checkFilename_extract \/ checkFilename_compare \/ checkFile_verdict

SpecName == InitName /\ [][NextName]_vars

----------------------------------------------------------------------------
(* Properties of one call of checkFile, read off its locals when it has    *)
(* returned (pc = "done")                                                  *)

\* the fields of the run's algorithm
ownTs(attr) == IF gBMd5 THEN attr.tsMd5 ELSE attr.ts

ownDigest(attr) == IF gBMd5 THEN attr.md5 ELSE attr.sha256

zeroDigest == IF gBMd5 THEN zeroMd5 ELSE zeroSha256

\* getActualAttr has returned without an error: both samples of the
\* modification time were taken and agree
Hashed == pc = "done" /\ chk.sampled2 /\ chk.ts2 = ownTs(chk.actual)

\* what the attribute store holds now, as the next check would read it
storedNow == getStoredAttr(gBMd5, xattr)

VerdictCounters ==
    {"ok", "corrupt", "timechange", "newfile", "outdated", "inprogress",
     "errorsOpening", "errorsOther"}

\* the call has incremented verdict counter c and no other verdict counter
OnlyCounted(c) ==
    /\ stats[c] = chk.stats0[c] + 1
    /\ \A d \in VerdictCounters \ {c} : stats[d] = chk.stats0[d]

\* the call has incremented no verdict counter
NoneCounted == \A d \in VerdictCounters : stats[d] = chk.stats0[d]

\* digest d stands in path p, character for character
EmbeddedIn(p, d) ==
    \E i \in 1..(Len(p) - Len(d) + 1) : SubSeq(p, i, i + Len(d) - 1) = d

StoreFailed == {"failed", "failed_after_digest", "failed_after_ts"}

\* C1: a check that hashed the file, found the stored timestamp equal to the
\* file's mtime and the stored digest different from the content's digest,
\* gives the verdict Corrupt: the corrupt counter is incremented and no other
\* verdict counter is.
C1_CorruptDetected ==
    (/\ Hashed
     /\ ownTs(chk.stored) = ownTs(chk.actual)
     /\ ownDigest(chk.stored) # ownDigest(chk.actual))
    => (chk.verdict = "corrupt" /\ OnlyCounted("corrupt"))

C1_Witness ==
    /\ Hashed
    /\ gBMd5
    /\ ownTs(chk.stored) = ownTs(chk.actual)
    /\ ownDigest(chk.stored) = md5Hex(ContentA)
    /\ ownDigest(chk.actual) = md5Hex(ContentB)
    /\ chk.verdict = "corrupt"

\* C2: when the mtime sampled after streaming differs from the mtime sampled
\* before it, the digest is not returned, the check reports concurrent
\* modification (the inprogress counter alone is incremented) and the file's
\* attributes are what they were when the check began.
C2_TornRead ==
    (pc = "done" /\ chk.sampled2 /\ chk.ts2 # ownTs(chk.actual))
    => (/\ chk.verdict = "inprogress"
        /\ ownDigest(chk.actual) = zeroDigest
        /\ OnlyCounted("inprogress")
        /\ stats.errorsWritingXattr = chk.stats0.errorsWritingXattr
        /\ chk.store = "none"
        /\ xattr = chk.xattr0)

C2_Witness ==
    /\ pc = "done"
    /\ chk.sampled2
    /\ chk.ts2 # ownTs(chk.actual)
    /\ chk.buf = ContentA
    /\ ownDigest(chk.stored) = ownDigest(actualEnd(gBMd5, chk.actual, chk.buf))
    /\ chk.verdict = "inprogress"

\* the stored attributes a check read are the zero values: nothing recorded
NothingStored ==
    ownDigest(chk.stored) = zeroDigest /\ ownTs(chk.stored) = zeroFileTimeStamp

\* this check follows one that stored its actual attributes, and the file
\* was not written since that earlier check began
Settled ==
    /\ chk.hist0 \in {"corrupt", "timechange", "new", "outdated"}
    /\ writes = chk.writes0

\* the store holds the actual attributes of this check
HoldsActual ==
    /\ ownDigest(storedNow) = ownDigest(chk.actual)
    /\ ownTs(storedNow) = ownTs(chk.actual)

\* C3 as stated: every file without recorded attributes is classified New,
\* non-zero actual attributes are stored, and a second check of the
\* untouched file is Ok.
C3_Original ==
    /\ (Hashed /\ NothingStored)
         => (/\ chk.verdict = "new"
             /\ ownDigest(chk.actual) # zeroDigest
             /\ ownTs(chk.actual) # zeroFileTimeStamp
             /\ chk.store # "none"
             /\ (chk.store = "ok" => HoldsActual))
    /\ (Hashed /\ Settled /\ chk.hist0 = "new") => chk.verdict = "ok"

\* C3, amended: a file without recorded attributes whose mtime is not the
\* zero timestamp is classified New and its non-zero actual attributes are
\* stored; a second check of the file, unwritten since the first began, is
\* Ok, or FilenameNotMatched when the file name has to carry the digest and
\* does not.
C3_NewThenOk ==
    /\ (Hashed /\ NothingStored /\ ownTs(chk.actual) # zeroFileTimeStamp)
         => (/\ chk.verdict = "new"
             /\ OnlyCounted("newfile")
             /\ ownDigest(chk.actual) # zeroDigest
             /\ chk.store # "none"
             /\ (chk.store = "ok" => HoldsActual))
    /\ (Hashed /\ Settled /\ chk.hist0 = "new")
         => (/\ chk.verdict \in {"ok", "filename_not_matched"}
             /\ chk.verdict = "filename_not_matched"
                  => (gBCheckFilename /\ ~EmbeddedIn(fn, ownDigest(chk.actual))))

C3_Witness ==
    /\ Hashed
    /\ Settled
    /\ chk.hist0 = "new"
    /\ chk.verdict = "ok"
    /\ ownTs(chk.stored) = TA

\* C4 as stated: after a check has stored its actual attributes, every later
\* check of the unwritten file is Ok and leaves the attributes alone.
C4_Original ==
    (Hashed /\ Settled) => (chk.verdict = "ok" /\ xattr = chk.xattr0)

\* C4, amended: after a check has stored its actual attributes, every later
\* check that hashes the file, unwritten since the storing check began, is Ok
\* (FilenameNotMatched when the file name has to carry the digest and does
\* not) and a check with either verdict writes no attribute, so the stored
\* attributes stay what the storing check wrote.
C4_Idempotent ==
    /\ (Hashed /\ Settled)
         => (/\ chk.verdict \in {"ok", "filename_not_matched"}
             /\ chk.verdict = "filename_not_matched"
                  => (gBCheckFilename /\ ~EmbeddedIn(fn, ownDigest(chk.actual)))
             /\ HoldsActual)
    /\ (pc = "done" /\ chk.verdict \in {"ok", "filename_not_matched"})
         => (xattr = chk.xattr0 /\ chk.store = "none")

C4_Witness ==
    /\ Hashed
    /\ Settled
    /\ chk.hist0 = "corrupt"
    /\ chk.verdict = "ok"
    /\ stats.ok = 1
    /\ stats.corrupt = 1

\* C5: a check that hashed the file, found the stored digest equal to the
\* content's digest and the stored timestamp different from the file's
\* mtime, gives the verdict TimeChanged and stores the actual attributes:
\* once written, the stored timestamp is the mtime and the stored digest has
\* the value it had.
C5_TimeChanged ==
    (/\ Hashed
     /\ ownDigest(chk.stored) = ownDigest(chk.actual)
     /\ ownTs(chk.stored) # ownTs(chk.actual))
    => (/\ chk.verdict = "timechange"
        /\ OnlyCounted("timechange")
        /\ chk.store # "none"
        /\ chk.store = "ok"
             => (/\ ownTs(storedNow) = chk.ts2
                 /\ ownDigest(storedNow) = ownDigest(chk.stored)))

C5_Witness ==
    /\ Hashed
    /\ chk.verdict = "timechange"
    /\ chk.store = "ok"
    /\ ownTs(chk.stored) = TA
    /\ ownTs(storedNow) = TB

\* C6: a check that hashed the file and found both the stored timestamp and
\* the stored digest different from the actual ones gives the verdict New
\* when stored digest and stored timestamp are both zero, and Outdated in
\* every other case, also when only one of the two is zero.
C6_NewOrOutdated ==
    (/\ Hashed
     /\ ownTs(chk.stored) # ownTs(chk.actual)
     /\ ownDigest(chk.stored) # ownDigest(chk.actual))
    => (/\ chk.verdict \in {"new", "outdated"}
        /\ chk.verdict = "new"
             <=> (ownDigest(chk.stored) = zeroDigest /\ ownTs(chk.stored) = zeroFileTimeStamp))

C6_Witness ==
    /\ Hashed
    /\ chk.verdict = "outdated"
    /\ ownDigest(chk.stored) = zeroDigest
    /\ ownTs(chk.stored) # zeroFileTimeStamp

\* the verdict the comparison of stored and actual attributes decides when
\* they do not agree in both timestamp and digest
Decided ==
    IF ownTs(chk.stored) = ownTs(chk.actual) THEN "corrupt"
    ELSE IF ownDigest(chk.stored) = ownDigest(chk.actual) THEN "timechange"
    ELSE IF NothingStored THEN "new"
    ELSE "outdated"

\* the counter of a storing verdict
DecidedCounter ==
    IF chk.verdict = "new" THEN "newfile" ELSE chk.verdict

\* C7: when storing the actual attributes fails after a Corrupt, TimeChanged,
\* New or Outdated verdict, the verdict is the one the comparison decided, its
\* counter is incremented exactly once and no other verdict counter is, and
\* the write-error counter is incremented once in addition.
C7_PersistFailure ==
    (pc = "done" /\ chk.store \in StoreFailed)
    => (/\ chk.verdict \in {"corrupt", "timechange", "new", "outdated"}
        /\ chk.verdict = Decided
        /\ OnlyCounted(DecidedCounter)
        /\ stats.errorsWritingXattr = chk.stats0.errorsWritingXattr + 1
        /\ stats.total = chk.stats0.total + 1)

C7_Witness ==
    /\ pc = "done"
    /\ chk.store = "failed"
    /\ chk.verdict = "corrupt"
    /\ stats.corrupt = 1
    /\ stats.errorsWritingXattr = 1
    /\ xattr = chk.xattr0

\* the checksum the file name carries: 32 hex characters under MD5, one hex
\* character under SHA-256
NameChecksum ==
    extractChecksumFromFilename(gBMd5, Base(fn), IF gBMd5 THEN Md5Len ELSE 0)

\* C8: with gBCheckFilename set, a check whose stored and actual timestamps
\* and digests match is Ok exactly when the checksum extracted from the file
\* name is the actual digest; otherwise it is FilenameNotMatched, which
\* writes no attribute and increments no verdict counter, the ok counter
\* included.
C8_VerifyFilename ==
    (/\ Hashed
     /\ gBCheckFilename
     /\ ownTs(chk.stored) = ownTs(chk.actual)
     /\ ownDigest(chk.stored) = ownDigest(chk.actual))
    => (/\ chk.verdict \in {"ok", "filename_not_matched"}
        /\ chk.verdict = "ok" <=> NameChecksum = ownDigest(chk.actual)
        /\ chk.verdict = "ok" => (OnlyCounted("ok") /\ EmbeddedIn(fn, ownDigest(chk.actual)))
        /\ chk.verdict = "filename_not_matched"
             => (/\ NoneCounted
                 /\ stats.errorsWritingXattr = chk.stats0.errorsWritingXattr
                 /\ chk.store = "none"
                 /\ xattr = chk.xattr0))

C8_Witness ==
    /\ Hashed
    /\ gBCheckFilename
    /\ gBMd5
    /\ fn = PathTagged
    /\ chk.verdict = "filename_not_matched"
    /\ ownTs(chk.stored) = ownTs(chk.actual)
    /\ ownDigest(chk.stored) = md5Hex(ContentB)
    /\ stats.ok = 0

\* the digest of the run's algorithm the attributes held when the check began
StoredDigest0 ==
    IF gBMd5 THEN getStoredAttrMd5(chk.xattr0).md5
    ELSE getStoredAttrSha256(chk.xattr0).sha256

\* a check has returned that neither read nor hashed the content
NotHashed ==
    /\ chk.buf = <<>>
    /\ ~chk.sampled2
    /\ chk.actual = fileAttr0
    /\ chk.store = "none"

\* C9 as stated: with gBOnlyFilename set, a check of an opened file hashes
\* nothing, leaves the attributes as they were, and its verdict is decided by
\* the file name and the stored digest of the run's algorithm.
C9_Original ==
    (pc = "done" /\ gBOnlyFilename /\ chk.verdict # "open_error")
    => (/\ NotHashed
        /\ xattr = chk.xattr0
        /\ chk.verdict =
             IF NameChecksum = StoredDigest0 THEN "filename_ok" ELSE "filename_mismatch")

\* C9, amended: with gBOnlyFilename set and remove mode off, a check of an
\* opened file hashes nothing, leaves the attributes as they were, and its
\* verdict is decided by the file name and the stored digest of the run's
\* algorithm, whatever the content and the mtime are.
C9_FilenameOnly ==
    (pc = "done" /\ gBOnlyFilename /\ ~args.remove /\ chk.verdict # "open_error")
    => (/\ NotHashed
        /\ xattr = chk.xattr0
        /\ NoneCounted
        /\ chk.verdict =
             IF NameChecksum = StoredDigest0 THEN "filename_ok" ELSE "filename_mismatch")

C9_Witness ==
    /\ pc = "done"
    /\ gBOnlyFilename
    /\ ~args.remove
    /\ chk.verdict = "filename_ok"
    /\ content = ContentB
    /\ mtime = TB
    /\ writes = chk.writes0
    /\ xattr = chk.xattr0
    /\ xattrMd5 \in DOMAIN xattr

\* C10: in remove mode a check of an opened file only removes attributes: it
\* reads no stored attribute, hashes nothing, compares nothing and stores
\* nothing, whatever gBOnlyFilename and gBCheckFilename are; the attributes
\* are gone when the removal succeeded, and no attribute is added or changed
\* when it failed.
C10_RemoveMode ==
    (pc = "done" /\ args.remove /\ chk.verdict # "open_error")
    => (/\ chk.verdict \in {"removed", "remove_error"}
        /\ chk.stored = fileAttr0
        /\ NotHashed
        /\ xattr = Restrict(chk.xattr0, DOMAIN xattr)
        /\ chk.verdict = "removed" => (xattr = <<>> /\ OnlyCounted("ok"))
        /\ chk.verdict = "remove_error" => OnlyCounted("errorsOther")
        /\ stats.errorsWritingXattr = chk.stats0.errorsWritingXattr)

C10_Witness ==
    /\ pc = "done"
    /\ args.remove
    /\ gBOnlyFilename
    /\ gBCheckFilename
    /\ chk.verdict = "removed"
    /\ chk.xattr0 # <<>>
    /\ xattr = <<>>

\* the verdicts of a file that could not be opened or read
ErrorVerdicts == {"open_error", "read_error"}

\* the verdict of a check that hashed the file, read off its stored and
\* actual attributes
Expected ==
    IF ownTs(chk.stored) = ownTs(chk.actual) /\ ownDigest(chk.stored) = ownDigest(chk.actual)
    THEN IF gBCheckFilename /\ NameChecksum # ownDigest(chk.actual)
         THEN "filename_not_matched"
         ELSE "ok"
    ELSE Decided

\* an earlier check of the run ended with an open or read error
AfterError == chk.stats0.errorsOpening + chk.stats0.errorsOther > 0

\* C11: a check that ends with an open or read error has returned, leaves
\* the file's attributes as they were, and increments one error counter once
\* and no other counter but total; a check that runs after such an error
\* reads the attributes the store holds and is classified by them and the
\* actual attributes as any check is.
C11_ErrorsNotFatal ==
    /\ chk.verdict \in ErrorVerdicts
         => (/\ pc = "done"
             /\ xattr = chk.xattr0
             /\ chk.store = "none"
             /\ OnlyCounted(IF chk.verdict = "open_error" THEN "errorsOpening"
                            ELSE "errorsOther")
             /\ stats.errorsWritingXattr = chk.stats0.errorsWritingXattr
             /\ stats.total = chk.stats0.total + 1)
    /\ (Hashed /\ AfterError)
         => chk.stored = (IF gBMd5 THEN getStoredAttrMd5(chk.xattr0)
                          ELSE getStoredAttrSha256(chk.xattr0))
    /\ (Hashed /\ AfterError) => chk.verdict = Expected

C11_Witness ==
    /\ Hashed
    /\ chk.stats0.total = 1
    /\ chk.stats0.errorsOther = 1
    /\ stats.total = 2
    /\ chk.verdict = "timechange"
    /\ stats.timechange = 1

\* the attribute names of the run's algorithm
OwnNames == {digestName(gBMd5), tsName(gBMd5)}

\* attribute stores of the other algorithm: absent, partial or complete
OtherStores == IF gBMd5 THEN ShaStores ELSE Md5Stores

\* values the other algorithm's timestamp and digest fields could take: the
\* zero values, and the attributes of either content
OtherFields ==
    IF gBMd5
    THEN {<<zeroFileTimeStamp, <<>>>>, <<TA, sha256Hex(ContentA)>>,
          <<TB, sha256Hex(ContentB)>>}
    ELSE {<<zeroFileTimeStamp, <<>>>>, <<TA, md5Hex(ContentA)>>,
          <<TB, md5Hex(ContentB)>>}

\* attr with the other algorithm's fields set to ts and d
withOther(attr, ts, d) ==
    IF gBMd5 THEN [attr EXCEPT !.ts = ts, !.sha256 = d]
    ELSE [attr EXCEPT !.tsMd5 = ts, !.md5 = d]

\* the attributes of the run's algorithm the store held when the check began
OwnStore0 == Restrict(chk.xattr0, OwnNames \cap DOMAIN chk.xattr0)

\* the check has read the stored attributes
ReadStored ==
    pc = "done" /\ chk.verdict \notin {"open_error", "removed", "remove_error"}

\* C12: a check reads only the attributes of the run's algorithm (what it
\* read is what it would have read with any other attributes of the other
\* algorithm in the store, and the other algorithm's fields stay at their
\* zero values), and its comparisons look only at the run's algorithm: the
\* verdict is the same for every value of the other algorithm's fields.
C12_AlgorithmIsolation ==
    /\ ReadStored
         => (/\ \A o \in OtherStores :
                  chk.stored = getStoredAttr(gBMd5, o @@ OwnStore0)
             /\ chk.stored = withOther(chk.stored, zeroFileTimeStamp, <<>>)
             /\ chk.actual = withOther(chk.actual, zeroFileTimeStamp, <<>>))
    /\ Hashed
         => \A o1, o2 \in OtherFields :
              chk.verdict = classify(gBMd5, fn, withOther(chk.stored, o1[1], o1[2]),
                                     withOther(chk.actual, o2[1], o2[2]),
                                     gBCheckFilename)
    /\ (ReadStored /\ chk.verdict \in {"filename_ok", "filename_mismatch"})
         => \A o1 \in OtherFields :
              (chk.verdict = "filename_ok")
                = checkFilename(gBMd5, fn, withOther(chk.stored, o1[1], o1[2]))

C12_Witness ==
    /\ Hashed
    /\ gBMd5
    /\ xattrSha256 \in DOMAIN chk.xattr0
    /\ xattrTsSha256 \in DOMAIN chk.xattr0
    /\ DOMAIN chk.xattr0 \cap OwnNames = {}
    /\ chk.verdict = "new"
    /\ chk.store = "ok"

\* text t is not the decimal numeral of a value up to max
Unparsable(t, max) ==
    \/ t = <<>>
    \/ \E i \in 1..Len(t) : t[i] \notin Digits
    \/ NumGreater(Canon(t), max)

\* the stored timestamp text, split at its first "."
StoredTsParts == SplitN2(xattr[tsName(gBMd5)])

\* C13: loading the stored attributes gives 0 for every field of the stored
\* timestamp that is missing or unparsable: both fields when the attribute
\* is absent, the seconds when their text is not a number or exceeds 64
\* bits, the nanoseconds when their text is missing, not a number or exceeds
\* 32 bits.
C13_ParseDegradesToZero ==
    pc = "loaded"
    => IF tsName(gBMd5) \notin DOMAIN xattr
       THEN ownTs(chk.stored) = zeroFileTimeStamp
       ELSE /\ Unparsable(StoredTsParts[1], MaxUint64) => ownTs(chk.stored).s = Zero
            /\ (Len(StoredTsParts) = 1 \/ Unparsable(StoredTsParts[2], MaxUint32))
                 => ownTs(chk.stored).ns = Zero

\* C15: the text prettyPrint writes for a timestamp, read back by the parse
\* of getStoredAttr, gives the timestamp again: for zero, for values wider
\* than the ten and nine digits of the format, and for the largest values
\* of both fields.
C15_TimestampRoundTrip ==
    pc = "reloaded" => ownTs(chk.stored) = ownTs(chk.actual)

C15_Witness ==
    /\ pc = "reloaded"
    /\ ownTs(chk.actual) = fileTimestamp(MaxUint64, MaxUint32)
    /\ ownTs(chk.stored) = fileTimestamp(MaxUint64, MaxUint32)
    /\ Len(xattr[tsName(gBMd5)]) = 31

\* the runs of hex digits in s that cannot be extended, as <<first, last>>
HexRuns(s) ==
    {r \in (1..Len(s)) \X (1..Len(s)) :
        /\ r[1] <= r[2]
        /\ \A k \in r[1]..r[2] : s[k] \in HexChars
        /\ (r[1] = 1 \/ s[r[1] - 1] \notin HexChars)
        /\ (r[2] = Len(s) \/ s[r[2] + 1] \notin HexChars)}

\* the first run of HexRuns(s) that is n digits long, empty when none is
FirstRunOf(s, n) ==
    LET runs == {r \in HexRuns(s) : r[2] - r[1] + 1 = n}
    IN  IF runs = {} THEN <<>>
        ELSE LET r == CHOOSE x \in runs : \A y \in runs : x[1] <= y[1]
             IN  SubSeq(s, r[1], r[2])

\* C14: under MD5 the checksum taken from a file name is the first maximal
\* run of hex digits that is exactly 32 digits long, empty when the name has
\* no such run (a longer run is no match), and an empty checksum matches no
\* digest.
C14_ExtractExactRun ==
    (gBMd5 /\ pc \in {"extracted", "compared"})
    => (/\ chk.hash = FirstRunOf(Base(fn), Md5Len)
        /\ (pc = "compared" /\ chk.hash = <<>>) => ~chk.match)

Moved(c) == stats[c] - chk.stats0[c]

\* the sum of the eight verdict counters of st
VerdictSum(st) ==
    st.ok + st.corrupt + st.timechange + st.newfile + st.outdated
        + st.inprogress + st.errorsOpening + st.errorsOther

\* C19: a check increments total by one when it begins and at most one of
\* the eight verdict counters, each by one; none while it hashes and none
\* when it ends as a filename-only verdict or as FilenameNotMatched;
\* errorsWritingXattr moves by at most one and only with one of corrupt,
\* timechange, newfile or outdated; the sum of the eight verdict counters
\* never exceeds total.
C19_CountersExclusive ==
    /\ pc # "idle" => Moved("total") = 1
    /\ \A c \in VerdictCounters \cup {"errorsWritingXattr"} : Moved(c) \in {0, 1}
    /\ VerdictSum(stats) - VerdictSum(chk.stats0) <= 1
    /\ pc = "hashing" => (NoneCounted /\ Moved("errorsWritingXattr") = 0)
    /\ chk.verdict \in {"filename_ok", "filename_mismatch", "filename_not_matched"}
         => NoneCounted
    /\ (pc = "done" /\ VerdictSum(stats) = VerdictSum(chk.stats0))
         => chk.verdict \in {"filename_ok", "filename_mismatch", "filename_not_matched"}
    /\ Moved("errorsWritingXattr") = 1
         => \E c \in {"corrupt", "timechange", "newfile", "outdated"} : Moved(c) = 1
    /\ VerdictSum(stats) <= stats.total

C19_Witness ==
    /\ pc = "done"
    /\ stats.total = 2
    /\ stats.corrupt = 1
    /\ stats.errorsWritingXattr = 1
    /\ chk.verdict = "filename_not_matched"
    /\ VerdictSum(stats) = 1

\* this check follows one whose storeAttr failed with one attribute written,
\* and the file was not written since that earlier check began
AfterPartial(outcomes) ==
    Hashed /\ chk.hist0 \in outcomes /\ writes = chk.writes0

\* C17 as stated: after a store that failed with exactly one of the two
\* attributes written, whichever it was, the next check of the unwritten
\* file is not Corrupt.
C17_Original ==
    AfterPartial(StorePartial) => chk.verdict # "corrupt"

\* C17, amended: after a store that failed with only the digest written, the
\* next check of the unwritten file is not Corrupt: it is TimeChanged when
\* the stored timestamp is not the mtime, and Ok or FilenameNotMatched when
\* it is.  After a store that failed with only the timestamp written, the
\* next check is Corrupt whenever the digest left in the store is not the
\* content's.
C17_PartialPersist ==
    /\ AfterPartial({"failed_after_digest"})
         => (/\ ownDigest(chk.stored) = ownDigest(chk.actual)
             /\ chk.verdict =
                  IF ownTs(chk.stored) # ownTs(chk.actual) THEN "timechange"
                  ELSE IF gBCheckFilename /\ NameChecksum # ownDigest(chk.actual)
                  THEN "filename_not_matched"
                  ELSE "ok")
    /\ AfterPartial({"failed_after_ts"})
         => (/\ ownTs(chk.stored) = ownTs(chk.actual)
             /\ ownDigest(chk.stored) # ownDigest(chk.actual)
                  => chk.verdict = "corrupt")

C17_Witness ==
    /\ AfterPartial({"failed_after_digest"})
    /\ chk.verdict = "timechange"
    /\ stats.newfile = 1
    /\ stats.errorsWritingXattr = 1
    /\ ownTs(chk.stored) = zeroFileTimeStamp

\* the digest of content data under the run's algorithm
ownHash(data) == IF gBMd5 THEN md5Hex(data) ELSE sha256Hex(data)

\* attr pairs a timestamp with the digest of a whole content version the
\* file had under that timestamp
PairHeld(attr) ==
    \E v \in held : v[1] = ownTs(attr) /\ ownHash(v[2]) = ownDigest(attr)

\* C16: against a writer whose every write sets the mtime to a value the
\* file never had, the attributes a check hands to storeAttr, and the
\* attributes in the store after a complete store, pair a timestamp T with
\* the digest of one whole content version the file had while its mtime was
\* T; a check that read a mix of two versions ends as concurrent
\* modification and leaves the attributes alone.
C16_NoTornPersist ==
    /\ (pc = "done" /\ chk.store # "none")
         => (chk.buf \in Contents /\ PairHeld(chk.actual))
    /\ (pc = "done" /\ chk.store = "ok") => PairHeld(storedNow)
    /\ (pc = "done" /\ chk.sampled2 /\ chk.buf \notin Contents)
         => (/\ chk.verdict = "inprogress"
             /\ chk.store = "none"
             /\ xattr = chk.xattr0)

C16_Witness ==
    /\ pc = "done"
    /\ chk.sampled2
    /\ chk.buf = <<"a", "b">>
    /\ ownTs(chk.actual) = TA
    /\ mtime = TB
    /\ chk.verdict = "inprogress"
    /\ xattr = chk.xattr0

====
